---- MODULE Spec2Model ----
(***************************************************************************)
(* Validation model of the vllm-responses schema layer                     *)
(* (src/vllm_responses/types).  The repository declares the request and    *)
(* response shapes as pydantic models and TypedDicts; everything the       *)
(* layer does is done by validating a raw JSON-like value against one of   *)
(* those declarations.                                                     *)
(*                                                                         *)
(* JSON values are tagged records, so that a value of any JSON type can    *)
(* stand at any position:                                                  *)
(*     JNull            null / Python None                                 *)
(*     JStr(s)          a string                                           *)
(*     JNum(n)          a number; fractional fields are in hundredths      *)
(*     JBool(b)         a boolean                                          *)
(*     JList(q)         an array, q a sequence of JSON values              *)
(*     JObj(r)          an object, r a function from its keys to values    *)
(* A key that is not in DOMAIN r is absent from the object.                *)
(***************************************************************************)
EXTENDS Integers, Sequences, FiniteSets, TLC

VARIABLES op, site, arg, result

vars == <<op, site, arg, result>>

JNull == [null |-> TRUE]
JStr(s) == [str |-> s]
JNum(n) == [num |-> n]
JBool(b) == [bool |-> b]
JList(q) == [list |-> q]
JObj(r) == [obj |-> r]

IsNull(v) == "null" \in DOMAIN v
IsStr(v) == "str" \in DOMAIN v
IsNum(v) == "num" \in DOMAIN v
IsBool(v) == "bool" \in DOMAIN v
IsList(v) == "list" \in DOMAIN v
IsObj(v) == "obj" \in DOMAIN v

(***************************************************************************)
(* Field annotations.  A field descriptor says what the annotation of one  *)
(* attribute admits:                                                       *)
(*   kind "lit"   Literal[...]: a string of the set lits                   *)
(*   kind "str" / "int" / "float" / "bool"   the scalar types              *)
(*   kind "scalar"  Union[str, float, bool]                                *)
(*   kind "dict"    Dict[str, X]: an object whose values are validated by  *)
(*                  the declaration named in site                          *)
(*   kind "object"  typing `object`: any value at all                      *)
(*   kind "list"    List[X] / Iterable[X]: an array whose elements are     *)
(*                  validated by the declaration named in site             *)
(*   kind "one"     a nested declaration or union named in site            *)
(*   kind "str_or_list"  Union[str, List[X]]                               *)
(*   kind "choice"  Union[Literal[...], X]: a string of lits or an X       *)
(* req: the key must be present.  null: None is admitted (Optional).       *)
(* dflt: the value a BaseModel gives the attribute when the key is absent. *)
(***************************************************************************)
Field(kind, lits, at) ==
    [kind |-> kind, lits |-> lits, site |-> at, req |-> TRUE, null |-> FALSE,
     dflt |-> JNull]

Lit(S) == Field("lit", S, "")
StrT == Field("str", {}, "")
IntT == Field("int", {}, "")
FloatT == Field("float", {}, "")
BoolT == Field("bool", {}, "")
Scalar == Field("scalar", {}, "")
DictOf(at) == Field("dict", {}, at)
Object == Field("object", {}, "")
ListOf(at) == Field("list", {}, at)
One(at) == Field("one", {}, at)
StrOrListOf(at) == Field("str_or_list", {}, at)
LitOr(S, at) == Field("choice", S, at)

\* typing.Optional[X]: None is admitted too.
Optional(f) == [f EXCEPT !.null = TRUE]
\* A TypedDict(total=False) key without Required[...]: the key may be absent.
NotRequired(f) == [f EXCEPT !.req = FALSE]
\* A BaseModel attribute with a default: the key may be absent, the
\* attribute is then the default.
Default(f, v) == [f EXCEPT !.req = FALSE, !.dflt = v]
\* `x: Optional[X] = None` of a BaseModel.
OptNone(f) == Default(Optional(f), JNull)

\* A declaration: the class name, whether it is a pydantic BaseModel (its
\* instances carry every attribute) or a TypedDict (a validated dict), and
\* the descriptor of each attribute.
BaseModel(name, fields) == [name |-> name, cls |-> "BaseModel", fields |-> fields]
TypedDict(name, fields) == [name |-> name, cls |-> "TypedDict", fields |-> fields]

(***************************************************************************)
(* types/response.py                                                       *)
(***************************************************************************)
ErrorCodes ==
    {"server_error", "rate_limit_exceeded", "invalid_prompt", "vector_store_timeout",
     "invalid_image", "invalid_image_format", "invalid_base64_image",
     "invalid_image_url", "image_too_large", "image_too_small", "image_parse_error",
     "image_content_policy_violation", "invalid_image_mode", "image_file_too_large",
     "unsupported_image_media_type", "empty_image_file", "failed_to_download_image",
     "image_file_not_found"}

\* ResponseError as it would be were `code` declared str instead of a
\* Literal.
ResponseErrorCodeStr ==
    BaseModel("ResponseError", [code |-> StrT, message |-> StrT])

ResponseError ==
    BaseModel("ResponseError", [code |-> Lit(ErrorCodes), message |-> StrT])

IncompleteDetails ==
    BaseModel("IncompleteDetails",
        [reason |-> OptNone(Lit({"max_output_tokens", "content_filter"}))])

AnnotationFileCitation ==
    BaseModel("AnnotationFileCitation",
        [file_id |-> StrT, index |-> IntT, type |-> Lit({"file_citation"})])

AnnotationURLCitation ==
    BaseModel("AnnotationURLCitation",
        [end_index |-> IntT, start_index |-> IntT, title |-> StrT,
         type |-> Lit({"url_citation"}), url |-> StrT])

AnnotationFilePath ==
    BaseModel("AnnotationFilePath",
        [file_id |-> StrT, index |-> IntT, type |-> Lit({"file_path"})])

Annotation == <<AnnotationFileCitation, AnnotationURLCitation, AnnotationFilePath>>

ResponseOutputText ==
    BaseModel("ResponseOutputText",
        [annotations |-> ListOf("Annotation"), text |-> StrT,
         type |-> Lit({"output_text"})])

ResponseOutputRefusal ==
    BaseModel("ResponseOutputRefusal", [refusal |-> StrT, type |-> Lit({"refusal"})])

Content == <<ResponseOutputText, ResponseOutputRefusal>>

ResponseOutputMessage ==
    BaseModel("ResponseOutputMessage",
        [id |-> StrT, content |-> ListOf("Content"), role |-> Lit({"assistant"}),
         status |-> Lit({"in_progress", "completed", "incomplete"}),
         type |-> Lit({"message"})])

Result ==
    BaseModel("Result",
        [attributes |-> OptNone(DictOf("scalar")), file_id |-> OptNone(StrT),
         filename |-> OptNone(StrT), score |-> OptNone(FloatT), text |-> OptNone(StrT)])

ResponseFileSearchToolCall ==
    BaseModel("ResponseFileSearchToolCall",
        [id |-> StrT, queries |-> ListOf("str"),
         status |-> Lit({"in_progress", "searching", "completed", "incomplete", "failed"}),
         type |-> Lit({"file_search_call"}), results |-> OptNone(ListOf("Result"))])

ResponseFunctionToolCall ==
    BaseModel("ResponseFunctionToolCall",
        [arguments |-> StrT, call_id |-> StrT, name |-> StrT,
         type |-> Lit({"function_call"}), id |-> OptNone(StrT),
         status |-> OptNone(Lit({"in_progress", "completed", "incomplete"}))])

ResponseFunctionWebSearch ==
    BaseModel("ResponseFunctionWebSearch",
        [id |-> StrT, status |-> Lit({"in_progress", "searching", "completed", "failed"}),
         type |-> Lit({"web_search_call"})])

ActionClick ==
    BaseModel("ActionClick",
        [button |-> Lit({"left", "right", "wheel", "back", "forward"}),
         type |-> Lit({"click"}), x |-> IntT, y |-> IntT])

\* ActionDoubleClick as it would be were its `type` the literal of the
\* click.
ActionDoubleClickTypeClick ==
    BaseModel("ActionDoubleClick", [type |-> Lit({"click"}), x |-> IntT, y |-> IntT])

ActionDoubleClick ==
    BaseModel("ActionDoubleClick", [type |-> Lit({"double_click"}), x |-> IntT, y |-> IntT])

ActionDragPath == BaseModel("ActionDragPath", [x |-> IntT, y |-> IntT])

ActionDrag ==
    BaseModel("ActionDrag", [path |-> ListOf("ActionDragPath"), type |-> Lit({"drag"})])

ActionKeypress ==
    BaseModel("ActionKeypress", [keys |-> ListOf("str"), type |-> Lit({"keypress"})])

ActionMove == BaseModel("ActionMove", [type |-> Lit({"move"}), x |-> IntT, y |-> IntT])

ActionScreenshot == BaseModel("ActionScreenshot", [type |-> Lit({"screenshot"})])

ActionScroll ==
    BaseModel("ActionScroll",
        [scroll_x |-> IntT, scroll_y |-> IntT, type |-> Lit({"scroll"}),
         x |-> IntT, y |-> IntT])

ActionType == BaseModel("ActionType", [text |-> StrT, type |-> Lit({"type"})])

\* ActionWait as it would be were `type` given a default, so that the key
\* could be left out.
ActionWaitTypeDefaulted ==
    BaseModel("ActionWait", [type |-> Default(Lit({"wait"}), JStr("wait"))])

ActionWait == BaseModel("ActionWait", [type |-> Lit({"wait"})])

Action ==
    <<ActionClick, ActionDoubleClick, ActionDrag, ActionKeypress, ActionMove,
      ActionScreenshot, ActionScroll, ActionType, ActionWait>>

PendingSafetyCheck ==
    BaseModel("PendingSafetyCheck", [id |-> StrT, code |-> StrT, message |-> StrT])

ResponseComputerToolCall ==
    BaseModel("ResponseComputerToolCall",
        [id |-> StrT, action |-> One("Action"), call_id |-> StrT,
         pending_safety_checks |-> ListOf("PendingSafetyCheck"),
         status |-> Lit({"in_progress", "completed", "incomplete"}),
         type |-> Lit({"computer_call"})])

Summary == BaseModel("Summary", [text |-> StrT, type |-> Lit({"summary_text"})])

ResponseReasoningItem ==
    BaseModel("ResponseReasoningItem",
        [id |-> StrT, summary |-> ListOf("Summary"), type |-> Lit({"reasoning"}),
         status |-> OptNone(Lit({"in_progress", "completed", "incomplete"}))])

ResponseOutputItem ==
    <<ResponseOutputMessage, ResponseFileSearchToolCall, ResponseFunctionToolCall,
      ResponseFunctionWebSearch, ResponseComputerToolCall, ResponseReasoningItem>>

ToolChoiceOptions == {"none", "auto", "required"}

\* ToolChoiceFunction as it would be were `type` declared str instead of
\* Literal["function"].
ToolChoiceFunctionTypeStr ==
    BaseModel("ToolChoiceFunction", [name |-> StrT, type |-> StrT])

ToolChoiceFunction ==
    BaseModel("ToolChoiceFunction", [name |-> StrT, type |-> Lit({"function"})])

ComparisonFilter ==
    BaseModel("ComparisonFilter",
        [key |-> StrT, type |-> Lit({"eq", "ne", "gt", "gte", "lt", "lte"}),
         value |-> Scalar])

\* filters: List[Union[ComparisonFilter, object]]: the second member of the
\* element union is `object`, which every value is.
CompoundFilter ==
    BaseModel("CompoundFilter",
        [filters |-> ListOf("ComparisonFilterOrObject"), type |-> Lit({"and", "or"})])

RankingOptions ==
    BaseModel("RankingOptions",
        [ranker |-> OptNone(Lit({"auto", "default-2024-11-15"})),
         score_threshold |-> OptNone(FloatT)])

FileSearchTool ==
    BaseModel("FileSearchTool",
        [type |-> Lit({"file_search"}), vector_store_ids |-> ListOf("str"),
         filters |-> OptNone(One("Filters")), max_num_results |-> OptNone(IntT),
         ranking_options |-> OptNone(One("RankingOptions"))])

FunctionTool ==
    BaseModel("FunctionTool",
        [name |-> StrT, parameters |-> DictOf("object"), strict |-> BoolT,
         type |-> Lit({"function"}), description |-> OptNone(StrT)])

ComputerTool ==
    BaseModel("ComputerTool",
        [display_height |-> FloatT, display_width |-> FloatT,
         environment |-> Lit({"mac", "windows", "ubuntu", "browser"}),
         type |-> Lit({"computer_use_preview"})])

UserLocation ==
    BaseModel("UserLocation",
        [type |-> Lit({"approximate"}), city |-> OptNone(StrT), country |-> OptNone(StrT),
         region |-> OptNone(StrT), timezone |-> OptNone(StrT)])

WebSearchTool ==
    BaseModel("WebSearchTool",
        [type |-> Lit({"web_search_preview", "web_search_preview_2025_03_11"}),
         search_context_size |-> OptNone(Lit({"low", "medium", "high"})),
         user_location |-> OptNone(One("UserLocation"))])

Tool == <<FileSearchTool, FunctionTool, ComputerTool, WebSearchTool>>

InputTokensDetails == BaseModel("InputTokensDetails", [cached_tokens |-> IntT])

OutputTokensDetails == BaseModel("OutputTokensDetails", [reasoning_tokens |-> IntT])

ResponseUsage ==
    BaseModel("ResponseUsage",
        [input_tokens |-> IntT, input_tokens_details |-> One("InputTokensDetails"),
         output_tokens |-> IntT, output_tokens_details |-> One("OutputTokensDetails"),
         total_tokens |-> IntT])

ReasoningModel ==
    BaseModel("Reasoning",
        [effort |-> OptNone(Lit({"low", "medium", "high"})),
         generate_summary |-> OptNone(Lit({"concise", "detailed"}))])

ResponseFormatText == BaseModel("ResponseFormatText", [type |-> Lit({"text"})])

\* schema_ is populated from the key "schema" (its alias).
ResponseFormatTextJSONSchemaConfig ==
    BaseModel("ResponseFormatTextJSONSchemaConfig",
        [schema |-> DictOf("object"), type |-> Lit({"json_schema"}), description |-> OptNone(StrT),
         name |-> OptNone(StrT), strict |-> OptNone(BoolT)])

ResponseFormatJSONObject ==
    BaseModel("ResponseFormatJSONObject", [type |-> Lit({"json_object"})])

ResponseFormatTextConfig ==
    <<ResponseFormatText, ResponseFormatTextJSONSchemaConfig, ResponseFormatJSONObject>>

ResponseTextConfig ==
    BaseModel("ResponseTextConfig", [format |-> OptNone(One("ResponseFormatTextConfig"))])

(***************************************************************************)
(* types/params.py: the request-side TypedDicts.  Classes whose name is    *)
(* also a class of response.py carry the suffix Param here.                *)
(***************************************************************************)
ResponseInputTextParam ==
    TypedDict("ResponseInputTextParam", [text |-> StrT, type |-> Lit({"input_text"})])

ResponseInputImageParam ==
    TypedDict("ResponseInputImageParam",
        [detail |-> Lit({"high", "low", "auto"}), type |-> Lit({"input_image"}),
         file_id |-> NotRequired(Optional(StrT)),
         image_url |-> NotRequired(Optional(StrT))])

ResponseInputFileParam ==
    TypedDict("ResponseInputFileParam",
        [type |-> Lit({"input_file"}), file_data |-> NotRequired(StrT),
         file_id |-> NotRequired(StrT), filename |-> NotRequired(StrT)])

ResponseInputContentParam ==
    <<ResponseInputTextParam, ResponseInputImageParam, ResponseInputFileParam>>

\* type: Literal["message"] is declared without Required[...].
EasyInputMessageParam ==
    TypedDict("EasyInputMessageParam",
        [content |-> StrOrListOf("ResponseInputContentParam"),
         role |-> Lit({"user", "assistant", "system", "developer"}),
         type |-> NotRequired(Lit({"message"}))])

Message ==
    TypedDict("Message",
        [content |-> ListOf("ResponseInputContentParam"),
         role |-> Lit({"user", "system", "developer"}),
         status |-> NotRequired(Lit({"in_progress", "completed", "incomplete"})),
         type |-> NotRequired(Lit({"message"}))])

AnnotationFileCitationParam ==
    TypedDict("AnnotationFileCitation",
        [file_id |-> StrT, index |-> IntT, type |-> Lit({"file_citation"})])

AnnotationURLCitationParam ==
    TypedDict("AnnotationURLCitation",
        [end_index |-> IntT, start_index |-> IntT, title |-> StrT,
         type |-> Lit({"url_citation"}), url |-> StrT])

AnnotationFilePathParam ==
    TypedDict("AnnotationFilePath",
        [file_id |-> StrT, index |-> IntT, type |-> Lit({"file_path"})])

AnnotationParam ==
    <<AnnotationFileCitationParam, AnnotationURLCitationParam, AnnotationFilePathParam>>

ResponseOutputTextParam ==
    TypedDict("ResponseOutputTextParam",
        [annotations |-> ListOf("AnnotationParam"), text |-> StrT,
         type |-> Lit({"output_text"})])

ResponseOutputRefusalParam ==
    TypedDict("ResponseOutputRefusalParam", [refusal |-> StrT, type |-> Lit({"refusal"})])

ContentParam == <<ResponseOutputTextParam, ResponseOutputRefusalParam>>

ResponseOutputMessageParam ==
    TypedDict("ResponseOutputMessageParam",
        [id |-> StrT, content |-> ListOf("ContentParam"), role |-> Lit({"assistant"}),
         status |-> Lit({"in_progress", "completed", "incomplete"}),
         type |-> Lit({"message"})])

ResultParam ==
    TypedDict("Result",
        [attributes |-> NotRequired(Optional(DictOf("scalar"))), file_id |-> NotRequired(StrT),
         filename |-> NotRequired(StrT), score |-> NotRequired(FloatT),
         text |-> NotRequired(StrT)])

ResponseFileSearchToolCallParam ==
    TypedDict("ResponseFileSearchToolCallParam",
        [id |-> StrT, queries |-> ListOf("str"),
         status |-> Lit({"in_progress", "searching", "completed", "incomplete", "failed"}),
         type |-> Lit({"file_search_call"}),
         results |-> NotRequired(Optional(ListOf("ResultParam")))])

ActionClickParam ==
    TypedDict("ActionClick",
        [button |-> Lit({"left", "right", "wheel", "back", "forward"}),
         type |-> Lit({"click"}), x |-> IntT, y |-> IntT])

ActionDoubleClickParam ==
    TypedDict("ActionDoubleClick", [type |-> Lit({"double_click"}), x |-> IntT, y |-> IntT])

ActionDragPathParam == TypedDict("ActionDragPath", [x |-> IntT, y |-> IntT])

ActionDragParam ==
    TypedDict("ActionDrag", [path |-> ListOf("ActionDragPathParam"), type |-> Lit({"drag"})])

ActionKeypressParam ==
    TypedDict("ActionKeypress", [keys |-> ListOf("str"), type |-> Lit({"keypress"})])

ActionMoveParam == TypedDict("ActionMove", [type |-> Lit({"move"}), x |-> IntT, y |-> IntT])

ActionScreenshotParam == TypedDict("ActionScreenshot", [type |-> Lit({"screenshot"})])

ActionScrollParam ==
    TypedDict("ActionScroll",
        [scroll_x |-> IntT, scroll_y |-> IntT, type |-> Lit({"scroll"}),
         x |-> IntT, y |-> IntT])

ActionTypeParam == TypedDict("ActionType", [text |-> StrT, type |-> Lit({"type"})])

ActionWaitParam == TypedDict("ActionWait", [type |-> Lit({"wait"})])

ActionParam ==
    <<ActionClickParam, ActionDoubleClickParam, ActionDragParam, ActionKeypressParam,
      ActionMoveParam, ActionScreenshotParam, ActionScrollParam, ActionTypeParam,
      ActionWaitParam>>

PendingSafetyCheckParam ==
    TypedDict("PendingSafetyCheck", [id |-> StrT, code |-> StrT, message |-> StrT])

ResponseComputerToolCallParam ==
    TypedDict("ResponseComputerToolCallParam",
        [id |-> StrT, action |-> One("ActionParam"), call_id |-> StrT,
         pending_safety_checks |-> ListOf("PendingSafetyCheckParam"),
         status |-> Lit({"in_progress", "completed", "incomplete"}),
         type |-> Lit({"computer_call"})])

ResponseComputerToolCallOutputScreenshotParam ==
    TypedDict("ResponseComputerToolCallOutputScreenshotParam",
        [type |-> Lit({"computer_screenshot"}), file_id |-> NotRequired(StrT),
         image_url |-> NotRequired(StrT)])

ComputerCallOutputAcknowledgedSafetyCheck ==
    TypedDict("ComputerCallOutputAcknowledgedSafetyCheck",
        [id |-> StrT, code |-> StrT, message |-> StrT])

ComputerCallOutput ==
    TypedDict("ComputerCallOutput",
        [call_id |-> StrT,
         output |-> One("ResponseComputerToolCallOutputScreenshotParam"),
         type |-> Lit({"computer_call_output"}), id |-> NotRequired(StrT),
         acknowledged_safety_checks |->
             NotRequired(ListOf("ComputerCallOutputAcknowledgedSafetyCheck")),
         status |-> NotRequired(Lit({"in_progress", "completed", "incomplete"}))])

ResponseFunctionWebSearchParam ==
    TypedDict("ResponseFunctionWebSearchParam",
        [id |-> StrT, status |-> Lit({"in_progress", "searching", "completed", "failed"}),
         type |-> Lit({"web_search_call"})])

ResponseFunctionToolCallParam ==
    TypedDict("ResponseFunctionToolCallParam",
        [arguments |-> StrT, call_id |-> StrT, name |-> StrT,
         type |-> Lit({"function_call"}), id |-> NotRequired(StrT),
         status |-> NotRequired(Lit({"in_progress", "completed", "incomplete"}))])

\* FunctionCallOutput as it would be were its `type` the literal of the
\* function tool call.
FunctionCallOutputTypeCall ==
    TypedDict("FunctionCallOutput",
        [call_id |-> StrT, output |-> StrT, type |-> Lit({"function_call"}),
         id |-> NotRequired(StrT),
         status |-> NotRequired(Lit({"in_progress", "completed", "incomplete"}))])

FunctionCallOutput ==
    TypedDict("FunctionCallOutput",
        [call_id |-> StrT, output |-> StrT, type |-> Lit({"function_call_output"}),
         id |-> NotRequired(StrT),
         status |-> NotRequired(Lit({"in_progress", "completed", "incomplete"}))])

SummaryParam == TypedDict("Summary", [text |-> StrT, type |-> Lit({"summary_text"})])

ResponseReasoningItemParam ==
    TypedDict("ResponseReasoningItemParam",
        [id |-> StrT, summary |-> ListOf("SummaryParam"), type |-> Lit({"reasoning"}),
         status |-> NotRequired(Lit({"in_progress", "completed", "incomplete"}))])

ItemReference ==
    TypedDict("ItemReference", [id |-> StrT, type |-> Lit({"item_reference"})])

ResponseInputItemParam ==
    <<EasyInputMessageParam, Message, ResponseOutputMessageParam,
      ResponseFileSearchToolCallParam, ResponseComputerToolCallParam, ComputerCallOutput,
      ResponseFunctionWebSearchParam, ResponseFunctionToolCallParam, FunctionCallOutput,
      ResponseReasoningItemParam, ItemReference>>

(***************************************************************************)
(* types/tools.py and types/reasoning.py: request-side TypedDicts.         *)
(***************************************************************************)
ToolChoiceFunctionParam ==
    TypedDict("ToolChoiceFunctionParam", [name |-> StrT, type |-> Lit({"function"})])

ComparisonFilterParam ==
    TypedDict("ComparisonFilter",
        [key |-> StrT, type |-> Lit({"eq", "ne", "gt", "gte", "lt", "lte"}),
         value |-> Scalar])

\* filters: Required[Iterable[Union[ComparisonFilter, object]]]
CompoundFilterParam ==
    TypedDict("CompoundFilter",
        [filters |-> ListOf("ComparisonFilterParamOrObject"),
         type |-> Lit({"and", "or"})])

RankingOptionsParam ==
    TypedDict("RankingOptions",
        [ranker |-> NotRequired(Lit({"auto", "default-2024-11-15"})),
         score_threshold |-> NotRequired(FloatT)])

FileSearchToolParam ==
    TypedDict("FileSearchToolParam",
        [type |-> Lit({"file_search"}), vector_store_ids |-> ListOf("str"),
         filters |-> NotRequired(One("FiltersParam")),
         max_num_results |-> NotRequired(IntT),
         ranking_options |-> NotRequired(One("RankingOptionsParam"))])

\* FunctionToolParam as it would be were `type` annotated str rather than
\* Literal["function"].
FunctionToolParamTypeStr ==
    TypedDict("FunctionToolParam",
        [name |-> StrT, parameters |-> DictOf("object"), strict |-> BoolT,
         type |-> StrT, description |-> NotRequired(Optional(StrT))])

FunctionToolParam ==
    TypedDict("FunctionToolParam",
        [name |-> StrT, parameters |-> DictOf("object"), strict |-> BoolT,
         type |-> Lit({"function"}), description |-> NotRequired(Optional(StrT))])

ComputerToolParam ==
    TypedDict("ComputerToolParam",
        [display_height |-> FloatT, display_width |-> FloatT,
         environment |-> Lit({"mac", "windows", "ubuntu", "browser"}),
         type |-> Lit({"computer_use_preview"})])

UserLocationParam ==
    TypedDict("UserLocation",
        [type |-> Lit({"approximate"}), city |-> NotRequired(StrT),
         country |-> NotRequired(StrT), region |-> NotRequired(StrT),
         timezone |-> NotRequired(StrT)])

WebSearchToolParam ==
    TypedDict("WebSearchToolParam",
        [type |-> Lit({"web_search_preview", "web_search_preview_2025_03_11"}),
         search_context_size |-> NotRequired(Lit({"low", "medium", "high"})),
         user_location |-> NotRequired(Optional(One("UserLocationParam")))])

ToolParam ==
    <<FileSearchToolParam, FunctionToolParam, ComputerToolParam, WebSearchToolParam>>

\* types/reasoning.py; schemas.py imports this Reasoning.
Reasoning ==
    TypedDict("Reasoning",
        [effort |-> NotRequired(Optional(Lit({"low", "medium", "high"}))),
         generate_summary |-> NotRequired(Optional(Lit({"concise", "detailed"})))])

(***************************************************************************)
(* types/schemas.py: the create-request and the response.                  *)
(***************************************************************************)
ResponseIncludable ==
    {"file_search_call.results", "message.input_image.image_url",
     "computer_call_output.output.image_url"}

ResponsesCreate ==
    BaseModel("ResponsesCreate",
        [input |-> StrOrListOf("ResponseInputItemParam"),
         model |-> StrT,
         include |-> OptNone(ListOf("ResponseIncludable")),
         instructions |-> OptNone(StrT),
         max_output_tokens |-> OptNone(IntT),
         metadata |-> OptNone(DictOf("str")),
         parallel_tool_calls |-> Default(Optional(BoolT), JBool(TRUE)),
         previous_response_id |-> OptNone(StrT),
         reasoning |-> OptNone(One("Reasoning")),
         store |-> Default(Optional(BoolT), JBool(TRUE)),
         stream |-> Default(Optional(BoolT), JBool(FALSE)),
         temperature |-> OptNone(FloatT),
         text |-> OptNone(DictOf("str")),
         tool_choice |-> OptNone(LitOr(ToolChoiceOptions, "ToolChoiceFunction")),
         tools |-> OptNone(ListOf("ToolParam")),
         top_p |-> Default(Optional(FloatT), JNum(100)),
         truncation |-> Default(Optional(Lit({"auto", "disabled"})), JStr("disabled")),
         user |-> OptNone(StrT)])

Response ==
    BaseModel("Response",
        [created_at |-> FloatT,
         error |-> OptNone(One("ResponseError")),
         id |-> StrT,
         incomplete_details |-> OptNone(One("IncompleteDetails")),
         instructions |-> OptNone(StrT),
         max_output_tokens |-> OptNone(IntT),
         metadata |-> OptNone(DictOf("str")),
         model |-> StrT,
         object |-> Lit({"response"}),
         output |-> ListOf("ResponseOutputItem"),
         parallel_tool_calls |-> BoolT,
         previous_response_id |-> OptNone(StrT),
         reasoning |-> OptNone(One("Reasoning")),
         status |-> Lit({"completed", "failed", "in_progress", "incomplete"}),
         temperature |-> OptNone(FloatT),
         text |-> OptNone(One("ResponseTextConfig")),
         tool_choice |-> LitOr(ToolChoiceOptions, "ToolChoiceFunction"),
         tools |-> ListOf("Tool"),
         top_p |-> OptNone(FloatT),
         truncation |-> Default(Optional(Lit({"auto", "disabled"})), JStr("disabled")),
         usage |-> OptNone(One("ResponseUsage")),
         user |-> OptNone(StrT)])

(***************************************************************************)
(* Validation.  A position is named by the declaration or union that       *)
(* annotates it; Members gives the declarations tried there, in the order  *)
(* the Union lists them.  The PropertyInfo(discriminator="type") metadata  *)
(* of the response-side unions is not a pydantic discriminator, so those   *)
(* unions are plain unions as well: a value is accepted when some member   *)
(* validates it.                                                           *)
(***************************************************************************)
\* typing `object`, the second member of the element union of
\* CompoundFilter.filters.
PyObject == [name |-> "object", cls |-> "object", fields |-> <<>>]

ComparisonFilterOrObject == <<ComparisonFilter, PyObject>>

ComparisonFilterParamOrObject == <<ComparisonFilterParam, PyObject>>

Filters == <<ComparisonFilter, CompoundFilter>>

FiltersParam == <<ComparisonFilterParam, CompoundFilterParam>>

Members(at) ==
    CASE at = "Annotation" -> Annotation
      [] at = "Content" -> Content
      [] at = "Action" -> Action
      [] at = "ResponseOutputItem" -> ResponseOutputItem
      [] at = "Tool" -> Tool
      [] at = "ResponseFormatTextConfig" -> ResponseFormatTextConfig
      [] at = "Filters" -> Filters
      [] at = "ComparisonFilterOrObject" -> ComparisonFilterOrObject
      [] at = "ResponseInputContentParam" -> ResponseInputContentParam
      [] at = "AnnotationParam" -> AnnotationParam
      [] at = "ContentParam" -> ContentParam
      [] at = "ActionParam" -> ActionParam
      [] at = "ResponseInputItemParam" -> ResponseInputItemParam
      [] at = "ToolParam" -> ToolParam
      [] at = "FiltersParam" -> FiltersParam
      [] at = "ComparisonFilterParamOrObject" -> ComparisonFilterParamOrObject
      [] at = "ResponseError" -> <<ResponseError>>
      [] at = "IncompleteDetails" -> <<IncompleteDetails>>
      [] at = "Result" -> <<Result>>
      [] at = "ActionDragPath" -> <<ActionDragPath>>
      [] at = "PendingSafetyCheck" -> <<PendingSafetyCheck>>
      [] at = "Summary" -> <<Summary>>
      [] at = "ToolChoiceFunction" -> <<ToolChoiceFunction>>
      [] at = "RankingOptions" -> <<RankingOptions>>
      [] at = "UserLocation" -> <<UserLocation>>
      [] at = "InputTokensDetails" -> <<InputTokensDetails>>
      [] at = "OutputTokensDetails" -> <<OutputTokensDetails>>
      [] at = "ResponseUsage" -> <<ResponseUsage>>
      [] at = "ResponseTextConfig" -> <<ResponseTextConfig>>
      [] at = "ResultParam" -> <<ResultParam>>
      [] at = "ActionDragPathParam" -> <<ActionDragPathParam>>
      [] at = "PendingSafetyCheckParam" -> <<PendingSafetyCheckParam>>
      [] at = "ResponseComputerToolCallOutputScreenshotParam" ->
             <<ResponseComputerToolCallOutputScreenshotParam>>
      [] at = "ComputerCallOutputAcknowledgedSafetyCheck" ->
             <<ComputerCallOutputAcknowledgedSafetyCheck>>
      [] at = "SummaryParam" -> <<SummaryParam>>
      [] at = "ToolChoiceFunctionParam" -> <<ToolChoiceFunctionParam>>
      [] at = "RankingOptionsParam" -> <<RankingOptionsParam>>
      [] at = "UserLocationParam" -> <<UserLocationParam>>
      [] at = "Reasoning" -> <<Reasoning>>
      [] at = "ReasoningModel" -> <<ReasoningModel>>
      [] at = "ResponsesCreate" -> <<ResponsesCreate>>
      [] at = "Response" -> <<Response>>
      [] OTHER -> <<>>

\* Element annotations that are not declarations: str, object,
\* Union[str, float, bool] and the Literal alias ResponseIncludable.
ScalarSites == {"str", "object", "scalar", "ResponseIncludable"}

ScalarOK(at, v) ==
    CASE at = "str" -> IsStr(v)
      [] at = "object" -> TRUE
      [] at = "scalar" -> IsStr(v) \/ IsNum(v) \/ IsBool(v)
      [] at = "ResponseIncludable" -> IsStr(v) /\ v.str \in ResponseIncludable
      [] OTHER -> FALSE

RECURSIVE Accepts(_, _)

\* Does the value v satisfy the annotation f?  Strings of the model are
\* never numerals, so no string is coerced to a number.
FieldOK(f, v) ==
    \/ f.null /\ IsNull(v)
    \/ CASE f.kind = "lit" -> IsStr(v) /\ v.str \in f.lits
          [] f.kind = "str" -> IsStr(v)
          [] f.kind = "int" -> IsNum(v)
          [] f.kind = "float" -> IsNum(v)
          [] f.kind = "bool" -> IsBool(v)
          [] f.kind = "scalar" -> IsStr(v) \/ IsNum(v) \/ IsBool(v)
          [] f.kind = "object" -> TRUE
          [] f.kind = "dict" ->
                 IsObj(v) /\ \A k \in DOMAIN v.obj : Accepts(f.site, v.obj[k])
          [] f.kind = "list" ->
                 IsList(v) /\ \A i \in 1..Len(v.list) : Accepts(f.site, v.list[i])
          [] f.kind = "one" -> Accepts(f.site, v)
          [] f.kind = "str_or_list" ->
                 \/ IsStr(v)
                 \/ IsList(v) /\ \A i \in 1..Len(v.list) : Accepts(f.site, v.list[i])
          [] f.kind = "choice" ->
                 \/ IsStr(v) /\ v.str \in f.lits
                 \/ Accepts(f.site, v)
          [] OTHER -> FALSE

\* Does the declaration D validate v?  Every declared key that is present
\* must satisfy its annotation, every required key must be present; keys
\* that D does not declare are ignored.
Conforms(D, v) ==
    \/ D.cls = "object"
    \/ /\ D.cls # "object"
       /\ IsObj(v)
       /\ \A k \in DOMAIN D.fields :
             IF k \in DOMAIN v.obj THEN FieldOK(D.fields[k], v.obj[k])
             ELSE ~D.fields[k].req

\* The members of the union at `at` that validate v.
Matching(at, v) == {i \in 1..Len(Members(at)) : Conforms(Members(at)[i], v)}

Accepts(at, v) ==
    IF at \in ScalarSites THEN ScalarOK(at, v) ELSE Matching(at, v) # {}

\* The member a union settles on: the leftmost member that validates v.
Select(at, v) == CHOOSE i \in Matching(at, v) : \A j \in Matching(at, v) : i <= j

RECURSIVE Build(_, _)

\* BuildField as it would be were the elements of a list built in
\* reverse.
BuildFieldReversed(f, v) ==
    IF IsNull(v) THEN v
    ELSE CASE f.kind = "one" -> Build(f.site, v)
           [] f.kind \in {"list", "str_or_list"} /\ IsList(v) ->
                  JList([i \in 1..Len(v.list) |->
                            Build(f.site, v.list[(Len(v.list) + 1) - i])])
           [] f.kind = "choice" /\ ~IsStr(v) -> Build(f.site, v)
           [] OTHER -> v

\* The validated value of one attribute: nested declarations are built in
\* turn, scalars are kept.
BuildField(f, v) ==
    IF IsNull(v) THEN v
    ELSE CASE f.kind = "one" -> Build(f.site, v)
           [] f.kind \in {"list", "str_or_list"} /\ IsList(v) ->
                  JList([i \in 1..Len(v.list) |-> Build(f.site, v.list[i])])
           [] f.kind = "choice" /\ ~IsStr(v) -> Build(f.site, v)
           [] OTHER -> v

\* The instance a declaration makes of a value it validates.  A BaseModel
\* instance has every declared attribute, absent keys taking the default;
\* a TypedDict keeps the declared keys that are present.  Undeclared keys
\* are dropped by both.
BuildDecl(D, v) ==
    CASE D.cls = "BaseModel" ->
             JObj([k \in DOMAIN D.fields |->
                      IF k \in DOMAIN v.obj THEN BuildField(D.fields[k], v.obj[k])
                      ELSE D.fields[k].dflt])
      [] D.cls = "TypedDict" ->
             JObj([k \in DOMAIN D.fields \cap DOMAIN v.obj |->
                      BuildField(D.fields[k], v.obj[k])])
      [] OTHER -> v

Build(at, v) ==
    IF at \in ScalarSites THEN v ELSE BuildDecl(Members(at)[Select(at, v)], v)

\* The type of the pydantic error an annotation reports for a value it
\* rejects.
ErrorType(f) ==
    CASE f.kind = "lit" -> "literal_error"
      [] f.kind = "str" -> "string_type"
      [] f.kind = "int" -> "int_type"
      [] f.kind = "float" -> "float_type"
      [] f.kind = "bool" -> "bool_type"
      [] f.kind = "dict" -> "dict_type"
      [] f.kind = "list" -> "list_type"
      [] OTHER -> "invalid"

RECURSIVE Errors(_, _)

\* The errors the elements of the list v report at the key k of D: every
\* element that its annotation rejects reports its own errors, each
\* carrying the 0-based index of the element.
ElementErrors(D, k, f, v) ==
    UNION {{[member |-> D.name, loc |-> k, index |-> i - 1, error |-> e] :
               e \in IF f.site \in ScalarSites
                     THEN {[member |-> f.site, loc |-> "", type |-> "invalid",
                            input |-> v.list[i]]}
                     ELSE Errors(f.site, v.list[i])} :
           i \in {i \in 1..Len(v.list) : ~Accepts(f.site, v.list[i])}}

\* The errors one key of D reports for the value x that its annotation
\* rejects: those of the elements when x is a list where one is expected
\* (and that x is no string, where a string would do), else the error of
\* the annotation, carrying x.
FieldErrors(D, k, x) ==
    LET f == D.fields[k]
    IN  IF f.kind \in {"list", "str_or_list"} /\ IsList(x)
        THEN ElementErrors(D, k, f, x)
             \cup (IF f.kind = "str_or_list"
                   THEN {[member |-> D.name, loc |-> k, type |-> "string_type",
                          input |-> x]}
                   ELSE {})
        ELSE {[member |-> D.name, loc |-> k, type |-> ErrorType(f), input |-> x]}

\* The errors one member reports for v: a missing required key, or a key
\* whose value its annotation rejects.
MemberErrors(D, v) ==
    IF D.cls = "object" THEN {}
    ELSE IF ~IsObj(v)
    THEN {[member |-> D.name, loc |-> "", type |-> "model_type", input |-> v]}
    ELSE {[member |-> D.name, loc |-> k, type |-> "missing", input |-> v] :
             k \in {k \in DOMAIN D.fields : D.fields[k].req /\ k \notin DOMAIN v.obj}}
         \cup
         UNION {FieldErrors(D, k, v.obj[k]) :
                   k \in {k \in DOMAIN D.fields \cap DOMAIN v.obj :
                             ~FieldOK(D.fields[k], v.obj[k])}}

\* A union that no member validates reports the errors of every member.
Errors(at, v) ==
    UNION {MemberErrors(Members(at)[i], v) : i \in 1..Len(Members(at))}

\* Validation at a position: the instance, or the ValidationError.
Validate(at, v) ==
    IF Accepts(at, v)
    THEN [ok |-> TRUE, member |-> Members(at)[Select(at, v)].name,
          value |-> Build(at, v), errors |-> {}]
    ELSE [ok |-> FALSE, member |-> "", value |-> JNull, errors |-> Errors(at, v)]

(***************************************************************************)
(* The unions of the repository, and those dispatched on `type`: the       *)
(* unions every member of which declares a `type` key.                     *)
(***************************************************************************)
Unions ==
    {"Annotation", "Content", "Action", "ResponseOutputItem", "Tool",
     "ResponseFormatTextConfig", "Filters", "ComparisonFilterOrObject",
     "ResponseInputContentParam", "AnnotationParam", "ContentParam", "ActionParam",
     "ResponseInputItemParam", "ToolParam", "FiltersParam",
     "ComparisonFilterParamOrObject"}

TypedUnions ==
    {u \in Unions : \A i \in 1..Len(Members(u)) : "type" \in DOMAIN Members(u)[i].fields}

\* The `type` literals a union knows.
TypeLiterals(u) == UNION {Members(u)[i].fields.type.lits : i \in 1..Len(Members(u))}

(***************************************************************************)
(* Raw values handed to the validators.                                    *)
(***************************************************************************)
Drop(r, key) == [k \in DOMAIN r \ {key} |-> r[k]]

Set(r, key, val) == [k \in DOMAIN r \cup {key} |-> IF k = key THEN val ELSE r[k]]

RECURSIVE Instance(_, _)

\* A well-formed value for one annotation; lists are empty unless deep.
Sample(f, deep) ==
    CASE f.kind \in {"lit", "choice"} -> JStr(CHOOSE x \in f.lits : TRUE)
      [] f.kind \in {"str", "scalar", "str_or_list"} -> JStr("s")
      [] f.kind \in {"int", "float"} -> JNum(1)
      [] f.kind = "bool" -> JBool(TRUE)
      [] f.kind = "dict" -> JObj(<<>>)
      [] f.kind = "one" -> Instance(Members(f.site)[1], deep)
      [] f.kind = "list" ->
             IF deep /\ f.site \notin ScalarSites
             THEN JList(<<Instance(Members(f.site)[1], FALSE)>>)
             ELSE JList(<<>>)
      [] OTHER -> JNull

\* An instance of D: the required keys only, or (deep) every declared key.
Instance(D, deep) ==
    JObj([k \in {k \in DOMAIN D.fields : deep \/ D.fields[k].req} |->
             Sample(D.fields[k], deep)])

\* A `type` value that no union of the repository knows, and one that
\* only other unions know.
Unknown == "bogus"

Foreign(u) == IF "function" \in TypeLiterals(u) THEN "summary_text" ELSE "function"

\* The records tried at the union u: the minimal and the full instance of
\* each member, and the minimal instance with its `type` removed, replaced
\* (by an unknown string, a literal of another union, a literal of another
\* member, null, a number), with an undeclared key added, and with each
\* required key removed.
RecordsOf(u, i) ==
    LET D == Members(u)[i]
        m == Instance(D, FALSE).obj
        j == (i % Len(Members(u))) + 1
    IN  {JObj(m), Instance(D, TRUE), JObj(Drop(m, "type")),
         JObj(Set(m, "type", JStr(Unknown))), JObj(Set(m, "type", JStr(Foreign(u)))),
         JObj(Set(m, "type", Sample(Members(u)[j].fields.type, FALSE))),
         JObj(Set(m, "type", JNull)), JObj(Set(m, "type", JNum(1))),
         JObj(Set(m, "extra", JStr("s")))}
        \cup {JObj(Drop(m, k)) : k \in DOMAIN m}

Records(u) == UNION {RecordsOf(u, i) : i \in 1..Len(Members(u))}

\* A key left out, or given one of the values of S.
Absent == <<FALSE, JNull>>

Given(S) == {<<TRUE, v>> : v \in S}

Put(r, key, c) == IF c[1] THEN Set(r, key, c[2]) ELSE Drop(r, key)

\* The deepest nesting of compound filters tried.
MaxDepth == 17

\* What stands at the bottom of a filter tree: a comparison, and three
\* values that are no filter (an operator outside the literals, an object
\* without `type`, a string).
Leaves ==
    {JObj([key |-> JStr("s"), type |-> JStr("eq"), value |-> JStr("s")]),
     JObj([key |-> JStr("s"), type |-> JStr("xor"), value |-> JStr("s")]),
     JObj([foo |-> JStr("s")]),
     JStr("s")}

RECURSIVE Nest(_, _, _)

\* The leaf under d compound filters, each holding one filter.
Nest(d, operator, leaf) ==
    IF d = 0 THEN leaf
    ELSE JObj([type |-> JStr(operator), filters |-> JList(<<Nest(d - 1, operator, leaf)>>)])

FilterTrees ==
    {Nest(d, operator, leaf) : d \in 0..MaxDepth, operator \in {"and", "or"}, leaf \in Leaves}
    \cup {JObj([type |-> JStr("and"),
                filters |-> JList(<<Nest(1, "or", leaf), Nest(0, "or", leaf)>>)]) :
             leaf \in Leaves}

RECURSIVE Depth(_)

\* The number of compound filters on the longest path of a filter tree.
Depth(v) ==
    IF IsObj(v) /\ "filters" \in DOMAIN v.obj /\ IsList(v.obj.filters)
    THEN LET ds == {Depth(v.obj.filters.list[i]) : i \in 1..Len(v.obj.filters.list)}
         IN  1 + (IF ds = {} THEN 0 ELSE CHOOSE d \in ds : \A e \in ds : e <= d)
    ELSE 0

\* max_num_results and score_threshold (in hundredths) tried.
NumResultsTried == {JNull, JNum(0), JNum(1), JNum(50), JNum(51)}

ThresholdsTried == {JNull, JNum(0 - 1), JNum(0), JNum(50), JNum(100), JNum(101)}

\* File-search tools: the minimal tool with a filter tree, or with
\* max_num_results and ranking_options given.
FileSearchRecords ==
    LET m == Instance(FileSearchTool, FALSE).obj
    IN  {JObj(Set(m, "filters", t)) : t \in FilterTrees}
        \cup
        {JObj(Put(Put(m, "max_num_results", n), "ranking_options", ro)) :
            n \in {Absent} \cup Given(NumResultsTried),
            ro \in {Absent}
                    \cup Given({JNull, JObj(<<>>), JObj([ranker |-> JStr("auto")])})
                    \cup Given({JObj([score_threshold |-> x]) : x \in ThresholdsTried})}

\* URL citations whose offsets vary: before, at and past each other.
URLCitationRecords ==
    {JObj(Set(Set(Instance(AnnotationURLCitation, FALSE).obj, "start_index", JNum(a)),
              "end_index", JNum(b))) : a \in 0..2, b \in 0..2}

\* The values decoded at the union u.
Inputs(u) ==
    Records(u)
    \cup (IF u \in {"Tool", "ToolParam"} THEN FileSearchRecords ELSE {})
    \cup (IF u \in {"Annotation", "AnnotationParam"} THEN URLCitationRecords ELSE {})

\* Create-request bodies: input and model given, tool_choice and tools
\* varying.
FunctionNames == {"f", "g"}

FunctionToolNamed(n) == JObj(Set(Instance(FunctionToolParam, FALSE).obj, "name", JStr(n)))

ToolChoiceChoices ==
    {Absent}
    \cup Given({JNull, JStr("none"), JStr("auto"), JStr("required"), JStr("function"),
                JStr("Auto"), JStr(""), JNum(1), JBool(TRUE),
                JObj([type |-> JStr("function")]), JObj([name |-> JStr("f")]),
                JObj([type |-> JStr("function"), name |-> JNum(1)]),
                JObj([type |-> JStr("file_search"), name |-> JStr("f")])})
    \cup Given({JObj([type |-> JStr("function"), name |-> JStr(n)]) : n \in FunctionNames})

ToolsChoices ==
    {Absent}
    \cup Given({JNull, JList(<<>>), JList(<<Instance(FileSearchToolParam, FALSE)>>),
                JList(<<JObj([type |-> JStr(Unknown)])>>)})
    \cup Given({JList(<<FunctionToolNamed(n)>>) : n \in FunctionNames})
    \cup Given({JList(<<Instance(FileSearchToolParam, FALSE), FunctionToolNamed(n)>>) :
                   n \in FunctionNames})
    \cup Given({JList(<<FunctionToolNamed("f"), FunctionToolNamed("g")>>)})

RECURSIVE Repeat(_, _)

\* The string of n characters c.
Repeat(c, n) ==
    IF n = 0 THEN ""
    ELSE LET half == Repeat(c, n \div 2)
         IN  IF n % 2 = 0 THEN half \o half ELSE half \o half \o c

\* The metadata map of n entries whose longest key has keylen characters
\* and whose values have vallen characters each.
MetadataOf(n, keylen, vallen) ==
    JObj([k \in {Repeat("k", i) : i \in ((keylen - n) + 1)..keylen} |->
             JStr(Repeat("v", vallen))])

\* Metadata tried: null, a value that is no string, and maps at and
\* beyond 16 entries, keys of 64 characters and values of 512.
MetadataTried ==
    {JNull, JObj([k |-> JNum(1)])}
    \cup {MetadataOf(n, keylen, vallen) :
             n \in {0, 1, 16, 17}, keylen \in {17, 64, 65}, vallen \in {0, 1, 512, 513}}

\* The longest input list tried.
MaxItems == 3

\* Item descriptors tried: three valid ones (a message without `type`, a
\* function call with an undeclared key, an item reference) and two
\* invalid ones (an unknown `type`, a function call without its name).
ValidItems ==
    {JObj([role |-> JStr("user"), content |-> JStr("s")]),
     JObj(Set(Instance(ResponseFunctionToolCallParam, FALSE).obj, "extra", JStr("s"))),
     Instance(ItemReference, FALSE)}

InvalidItems ==
    {JObj([type |-> JStr(Unknown)]),
     JObj(Drop(Instance(ResponseFunctionToolCallParam, FALSE).obj, "name"))}

\* Input lists of at most MaxItems items.
InputLists ==
    UNION {[1..n -> ValidItems \cup InvalidItems] : n \in 0..MaxItems}

CreateBodies ==
    {JObj(Set(Instance(ResponsesCreate, FALSE).obj, "metadata", m)) : m \in MetadataTried}
    \cup
    {JObj(Set(Instance(ResponsesCreate, FALSE).obj, "input", JList(l))) : l \in InputLists}
    \cup
    {JObj(Put(Put(Instance(ResponsesCreate, FALSE).obj, "tool_choice", tc), "tools", ts)) :
        tc \in ToolChoiceChoices, ts \in ToolsChoices}

\* Response bodies: a well-formed body whose status, error,
\* incomplete_details, usage and output vary over the absent key, null,
\* well-formed and ill-formed values.
StatusChoices ==
    {Absent} \cup Given({JStr(x) : x \in {"completed", "failed", "in_progress",
                                           "incomplete", "cancelled"}})

ErrorChoices ==
    {Absent} \cup Given({JNull,
                         JObj([code |-> JStr("server_error"), message |-> JStr("s")]),
                         JObj([code |-> JStr("cancelled"), message |-> JStr("s")]),
                         JObj([code |-> JStr("invalid_prompt")])})

IncompleteChoices ==
    {Absent} \cup Given({JNull, JObj(<<>>), JObj([reason |-> JNull]),
                         JObj([reason |-> JStr("max_output_tokens")]),
                         JObj([reason |-> JStr("content_filter")]),
                         JObj([reason |-> JStr("timeout")])})

UsageChoices ==
    {Absent} \cup Given({JNull, Instance(ResponseUsage, FALSE),
                         JObj(Drop(Instance(ResponseUsage, FALSE).obj, "total_tokens"))})

OutputChoices ==
    Given({JList(<<>>),
           JList(<<Instance(ResponseOutputMessage, TRUE),
                   Instance(ResponseFunctionToolCall, FALSE)>>)})

\* Error codes tried: every code of the Literal, two cancellation codes,
\* a code in another case, the empty string, null and a number.
CodesTried ==
    {JStr(c) : c \in ErrorCodes \cup {"cancelled", "request_cancelled", "SERVER_ERROR", ""}}
    \cup {JNull, JNum(1)}

\* Failed responses carrying an error with each code tried.
FailedBodies ==
    {JObj(Set(Set(Instance(Response, FALSE).obj, "status", JStr("failed")),
              "error", JObj([code |-> c, message |-> JStr("s")]))) : c \in CodesTried}

\* Web-search calls in each status of theirs, function calls in each
\* status of theirs and without one.
ItemsTried ==
    {JObj(Set(Instance(ResponseFunctionWebSearch, FALSE).obj, "status", JStr(x))) :
        x \in {"in_progress", "searching", "completed", "failed"}}
    \cup {JObj(Set(Instance(ResponseFunctionToolCall, FALSE).obj, "status", JStr(x))) :
             x \in {"in_progress", "completed", "incomplete"}}
    \cup {Instance(ResponseFunctionToolCall, FALSE),
          JObj(Set(Instance(ResponseFunctionToolCall, FALSE).obj, "status", JNull))}

\* Completed and in-progress responses whose output is one or two of the
\* items tried.
OutputBodies ==
    {JObj(Set(Set(Instance(Response, FALSE).obj, "status", JStr(st)), "output", JList(l))) :
        st \in {"completed", "in_progress"},
        l \in [1..1 -> ItemsTried] \cup [1..2 -> ItemsTried]}

ResponseBodies ==
    FailedBodies \cup OutputBodies \cup
    {JObj(Put(Put(Put(Put(Put(Instance(Response, FALSE).obj,
                              "status", st), "error", er), "incomplete_details", inc),
                  "usage", us), "output", out)) :
        st \in StatusChoices, er \in ErrorChoices, inc \in IncompleteChoices,
        us \in UsageChoices, out \in OutputChoices}

(***************************************************************************)
(* The layer is stateless: each call validates its argument and returns.   *)
(* The state is the call in hand: the operation, the position validated    *)
(* at, the raw argument and the outcome; between calls nothing is kept.    *)
(***************************************************************************)
Init ==
    /\ op = "none"
    /\ site = ""
    /\ arg = JNull
    /\ result = [ok |-> FALSE, member |-> "", value |-> JNull, errors |-> {}]

\* A record is decoded at a union dispatched on `type`.
DecodeUnion ==
    \E u \in TypedUnions : \E v \in Inputs(u) :
        /\ op = "none"
        /\ op' = "decode"
        /\ site' = u
        /\ arg' = v
        /\ result' = Validate(u, v)

\* A Response is constructed from a body: Response(**body).
ConstructResponse ==
    \E v \in ResponseBodies :
        /\ op = "none"
        /\ op' = "Response"
        /\ site' = "Response"
        /\ arg' = v
        /\ result' = Validate("Response", v)

\* A create-request is decoded from a body: ResponsesCreate(**body).
CreateRequest ==
    \E v \in CreateBodies :
        /\ op = "none"
        /\ op' = "ResponsesCreate"
        /\ site' = "ResponsesCreate"
        /\ arg' = v
        /\ result' = Validate("ResponsesCreate", v)

RECURSIVE model_dump(_)

\* The encoding of an instance: every attribute the instance has is
\* emitted under its name, None as null, nested instances and lists
\* encoded in turn.
model_dump(x) ==
    CASE IsObj(x) -> JObj([k \in DOMAIN x.obj |-> model_dump(x.obj[k])])
      [] IsList(x) -> JList([i \in 1..Len(x.list) |-> model_dump(x.list[i])])
      [] OTHER -> x

\* The instance decoded at a union, or the Response constructed, is
\* encoded.
Encode ==
    /\ op \in {"decode", "Response"}
    /\ result.ok
    /\ op' = "encode"
    /\ result' = [result EXCEPT !.value = model_dump(result.value)]
    /\ UNCHANGED <<site, arg>>

\* The call returns; nothing of it is kept.
Return ==
    /\ op # "none"
    /\ op' = "none"
    /\ site' = ""
    /\ arg' = JNull
    /\ result' = [ok |-> FALSE, member |-> "", value |-> JNull, errors |-> {}]

Next == DecodeUnion \/ Encode \/ CreateRequest \/ ConstructResponse \/ Return

Spec == Init /\ [][Next]_vars

(***************************************************************************)
(* Properties                                                              *)
(***************************************************************************)
\* The call in hand decodes an object without a `type` key.
NoType == op = "decode" /\ IsObj(arg) /\ "type" \notin DOMAIN arg.obj

\* The validation error says that `type` is missing.
MissingDiscriminator == \E e \in result.errors : e.loc = "type" /\ e.type = "missing"

UnknownType ==
    /\ op = "decode"
    /\ IsObj(arg)
    /\ "type" \in DOMAIN arg.obj
    /\ IsStr(arg.obj.type)
    /\ arg.obj.type.str \notin TypeLiterals(site)

Constructed == op = "Response" /\ result.ok

Attr(name) == result.value.obj[name]

\* C1: a constructed Response whose status is "failed" carries an error.
C1_FailedHasError ==
    Constructed /\ Attr("status") = JStr("failed") => ~IsNull(Attr("error"))

\* C2: a constructed Response whose status is "incomplete" carries
\* incomplete_details with a reason that is not null.
C2_IncompleteHasReason ==
    Constructed /\ Attr("status") = JStr("incomplete") =>
        /\ ~IsNull(Attr("incomplete_details"))
        /\ ~IsNull(Attr("incomplete_details").obj.reason)

\* C3: a constructed Response carries usage when its status is completed,
\* failed or incomplete, and carries none when its status is in_progress.
C3_UsageIffFinished ==
    Constructed =>
        /\ Attr("status") \in {JStr("completed"), JStr("failed"), JStr("incomplete")}
              => ~IsNull(Attr("usage"))
        /\ Attr("status") = JStr("in_progress") => IsNull(Attr("usage"))

\* The call in hand decodes a create-request whose tool_choice is the
\* named-function selector {type: function, name: n}.
NamedChoice ==
    /\ op = "ResponsesCreate"
    /\ "tool_choice" \in DOMAIN arg.obj
    /\ IsObj(arg.obj.tool_choice)
    /\ arg.obj.tool_choice.obj \in
           {[type |-> JStr("function"), name |-> JStr(n)] : n \in FunctionNames}

\* The tools of the request in hand: none when the key is absent or null.
DeclaredTools ==
    IF "tools" \in DOMAIN arg.obj /\ IsList(arg.obj.tools) THEN arg.obj.tools.list ELSE <<>>

\* Some function-typed tool of the request has the name the selector names.
ChoiceDeclared ==
    \E i \in 1..Len(DeclaredTools) :
        /\ IsObj(DeclaredTools[i])
        /\ {"type", "name"} \subseteq DOMAIN DeclaredTools[i].obj
        /\ DeclaredTools[i].obj.type = JStr("function")
        /\ DeclaredTools[i].obj.name = arg.obj.tool_choice.obj.name

\* C6: a create-request whose tool_choice names the function f validates
\* only if a function-typed tool of its tools is named f; it is rejected
\* when none is.
C6_NamedChoiceMustBeDeclared == NamedChoice /\ result.ok => ChoiceDeclared

\* C7: a create-request whose tool_choice names a function while tools is
\* absent, null or the empty list is rejected.
C7_NamedChoiceNeedsTools == NamedChoice /\ Len(DeclaredTools) = 0 => ~result.ok

\* The call in hand decodes a file-search tool.
FileSearch ==
    /\ op = "decode"
    /\ site \in {"Tool", "ToolParam"}
    /\ IsObj(arg)
    /\ "type" \in DOMAIN arg.obj
    /\ arg.obj.type = JStr("file_search")

\* The well-formed filter trees tried: a comparison under d compound
\* filters.
Chains ==
    {Nest(d, operator, JObj([key |-> JStr("s"), type |-> JStr("eq"), value |-> JStr("s")])) :
        d \in 0..MaxDepth, operator \in {"and", "or"}}

\* C8: a file-search tool whose filter is a well-formed tree is accepted
\* when the tree nests compound filters 16 deep or less, and rejected when
\* it nests them 17 deep or more.
C8_FilterDepthBounded ==
    FileSearch /\ "filters" \in DOMAIN arg.obj /\ arg.obj.filters \in Chains =>
        (result.ok <=> Depth(arg.obj.filters) <= 16)

\* C9: a file-search tool that gives max_num_results a number is accepted
\* if and only if the number is between 1 and 50 (nothing else given).
C9_MaxNumResultsInRange ==
    FileSearch /\ "max_num_results" \in DOMAIN arg.obj /\ IsNum(arg.obj.max_num_results)
               /\ "ranking_options" \notin DOMAIN arg.obj =>
        (result.ok <=> arg.obj.max_num_results.num \in 1..50)

\* C10: a file-search tool whose ranking_options give score_threshold a
\* number is accepted if and only if the number is in [0, 1], that is
\* between 0 and 100 hundredths (nothing else given).
C10_ScoreThresholdInUnitInterval ==
    FileSearch /\ "ranking_options" \in DOMAIN arg.obj
               /\ IsObj(arg.obj.ranking_options)
               /\ "score_threshold" \in DOMAIN arg.obj.ranking_options.obj
               /\ IsNum(arg.obj.ranking_options.obj.score_threshold)
               /\ "max_num_results" \notin DOMAIN arg.obj =>
        (result.ok <=> arg.obj.ranking_options.obj.score_threshold.num \in 0..100)

\* The call in hand decodes a create-request whose input is a bare string.
BareStringInput ==
    /\ op = "ResponsesCreate"
    /\ IsObj(arg)
    /\ "input" \in DOMAIN arg.obj
    /\ IsStr(arg.obj.input)

\* The single item a bare string s stands for: a message of role user
\* whose content is one input-text part with text s.
UserMessageOf(s) ==
    JList(<<JObj([role |-> JStr("user"),
                  content |-> JList(<<JObj([type |-> JStr("input_text"), text |-> s])>>)])>>)

\* C11: the input of a create-request accepted with a bare string s is the
\* list of exactly one item, the user message whose content is exactly
\* one input-text part with text s.
C11_BareStringIsOneUserMessage ==
    BareStringInput /\ result.ok => result.value.obj.input = UserMessageOf(arg.obj.input)

\* The value in hand is the minimal well-formed instance of a member of
\* the union: the required keys of the member and no other.
MinimalInstance ==
    /\ site \in TypedUnions
    /\ \E i \in 1..Len(Members(site)) : arg = Instance(Members(site)[i], FALSE)

\* C12: the minimal well-formed instance of every member of every union
\* dispatched on `type`, decoded and encoded again, is the value that was
\* decoded: no key is added and none is removed.
C12_RoundTrip == op = "encode" /\ MinimalInstance => result.value = arg

\* The closed enumeration of error codes.
ClosedErrorCodes ==
    {"server_error", "rate_limit_exceeded", "invalid_prompt", "vector_store_timeout",
     "invalid_image", "invalid_image_format", "invalid_base64_image",
     "invalid_image_url", "image_too_large", "image_too_small", "image_parse_error",
     "image_content_policy_violation", "invalid_image_mode", "image_file_too_large",
     "unsupported_image_media_type", "empty_image_file", "failed_to_download_image",
     "image_file_not_found"}

\* The body in hand gives the Response an error object with a code.
ErrorGiven ==
    /\ op = "Response"
    /\ "error" \in DOMAIN arg.obj
    /\ IsObj(arg.obj.error)
    /\ "code" \in DOMAIN arg.obj.error.obj

\* C16: a Response that carries an error carries one of the eighteen codes
\* of the closed enumeration, and a body whose error has any other code,
\* a cancellation code included, is rejected.
C16_ErrorCodeClosed ==
    /\ Constructed /\ ~IsNull(Attr("error")) =>
          /\ IsStr(Attr("error").obj.code)
          /\ Attr("error").obj.code.str \in ClosedErrorCodes
    /\ ErrorGiven /\ arg.obj.error.obj.code \notin {JStr(c) : c \in ClosedErrorCodes} =>
          ~result.ok

\* A Response is constructed that carries an error with a listed code.
C16_Witness ==
    /\ Constructed
    /\ ErrorGiven
    /\ ~IsNull(Attr("error"))
    /\ Attr("error").obj.code = JStr("rate_limit_exceeded")

\* The call in hand decoded a conversation item that has a `type`, and
\* accepted it.
ItemDecoded ==
    /\ op = "decode"
    /\ site = "ResponseInputItemParam"
    /\ result.ok
    /\ IsObj(arg)
    /\ "type" \in DOMAIN arg.obj

\* The members of the union u whose `type` literals include t.
Carriers(u, t) == {i \in 1..Len(Members(u)) : t \in Members(u)[i].fields.type.lits}

\* Every required key of the declaration D is present in v.
RequiredPresent(D, v) == \A k \in DOMAIN D.fields : D.fields[k].req => k \in DOMAIN v.obj

MessageVariants == {"EasyInputMessageParam", "Message", "ResponseOutputMessageParam"}

RECURSIVE ValidFilter(_)

\* A comparison filter (a key, one of the six comparison operators, a
\* scalar value), or a compound filter (`and` or `or`) every element of
\* which is in turn such a filter.
ValidFilter(v) ==
    /\ IsObj(v)
    /\ "type" \in DOMAIN v.obj
    /\ IsStr(v.obj.type)
    /\ \/ /\ v.obj.type.str \in {"eq", "ne", "gt", "gte", "lt", "lte"}
          /\ {"key", "value"} \subseteq DOMAIN v.obj
          /\ IsStr(v.obj.key)
          /\ IsStr(v.obj.value) \/ IsNum(v.obj.value) \/ IsBool(v.obj.value)
       \/ /\ v.obj.type.str \in {"and", "or"}
          /\ "filters" \in DOMAIN v.obj
          /\ IsList(v.obj.filters)
          /\ \A i \in 1..Len(v.obj.filters.list) : ValidFilter(v.obj.filters.list[i])

\* C18: a file-search tool is accepted with a filter only if every element
\* of every filters list of it, at every level, is a valid comparison or
\* compound filter; an element of any other shape rejects the tool.
C18_FilterElementsAreFilters ==
    FileSearch /\ "filters" \in DOMAIN arg.obj /\ ~IsNull(arg.obj.filters) /\ result.ok =>
        ValidFilter(arg.obj.filters)

\* The call in hand decodes an input-image content part.
InputImage ==
    /\ op = "decode"
    /\ site = "ResponseInputContentParam"
    /\ IsObj(arg)
    /\ "type" \in DOMAIN arg.obj
    /\ arg.obj.type = JStr("input_image")

\* The key is supplied: present and not null.
Supplied(key) == key \in DOMAIN arg.obj /\ ~IsNull(arg.obj[key])

\* C19: an input-image content part is accepted only if exactly one of
\* file_id and image_url is supplied; with both, or with neither, it is
\* rejected.
C19_ExactlyOneImageSource ==
    InputImage /\ result.ok => (Supplied("file_id") <=> ~Supplied("image_url"))

\* The call in hand decodes a create-request that gives a metadata map.
MetadataGiven ==
    /\ op = "ResponsesCreate"
    /\ "metadata" \in DOMAIN arg.obj
    /\ IsObj(arg.obj.metadata)

\* C20: a create-request is accepted with a metadata map only if the map
\* has at most 16 entries, every key at most 64 characters and every
\* value at most 512 characters.
C20_MetadataWithinLimits ==
    MetadataGiven /\ result.ok =>
        LET m == arg.obj.metadata.obj
        IN  /\ Cardinality(DOMAIN m) <= 16
            /\ \A k \in DOMAIN m : Len(k) <= 64 /\ Len(m[k].str) <= 512

\* The call in hand decodes a URL citation whose two offsets are numbers.
URLCitation ==
    /\ op = "decode"
    /\ site \in {"Annotation", "AnnotationParam"}
    /\ IsObj(arg)
    /\ "type" \in DOMAIN arg.obj
    /\ arg.obj.type = JStr("url_citation")
    /\ {"start_index", "end_index"} \subseteq DOMAIN arg.obj
    /\ IsNum(arg.obj.start_index)
    /\ IsNum(arg.obj.end_index)

\* C21: a URL citation is accepted only if its start_index is at most its
\* end_index; one whose start_index is past its end_index is rejected.
C21_CitationOffsetsOrdered ==
    URLCitation /\ result.ok => arg.obj.start_index.num <= arg.obj.end_index.num

\* The call in hand decodes a create-request that gives a tool_choice.
ToolChoiceGiven ==
    /\ op = "ResponsesCreate"
    /\ "tool_choice" \in DOMAIN arg.obj
    /\ ~IsNull(arg.obj.tool_choice)

\* One of the three policy literals, or a selector of type `function`
\* with a name.
PolicyOrNamedFunction(v) ==
    \/ IsStr(v) /\ v.str \in {"none", "auto", "required"}
    \/ /\ IsObj(v)
       /\ {"type", "name"} \subseteq DOMAIN v.obj
       /\ v.obj.type = JStr("function")
       /\ IsStr(v.obj.name)

\* C22: a create-request is accepted with a tool_choice only if the
\* tool_choice is one of the strings none, auto, required, or a selector
\* with type function and a name; any other string, and any object of
\* another type, is rejected.
C22_ToolChoiceShape ==
    ToolChoiceGiven /\ result.ok => PolicyOrNamedFunction(arg.obj.tool_choice)

\* A request is accepted with a policy literal, another with a named
\* function; here the named function.
C22_Witness ==
    /\ ToolChoiceGiven
    /\ result.ok
    /\ arg.obj.tool_choice = JObj([type |-> JStr("function"), name |-> JStr("f")])
    /\ result.value.obj.tool_choice.obj.name = JStr("f")

\* The declaration the value in hand was decoded as.
SelectedDecl ==
    Members(site)[CHOOSE i \in 1..Len(Members(site)) : Members(site)[i].name = result.member]

\* C23: a record that is accepted is accepted as well with an unknown key
\* added; the encoding of a decoded record has no key that its variant
\* does not declare, and no key that the record did not set.
C23_ExtrasDroppedUnsetOmitted ==
    /\ op = "decode" /\ IsObj(arg) /\ "extra" \in DOMAIN arg.obj
           /\ Accepts(site, JObj(Drop(arg.obj, "extra"))) => result.ok
    /\ op = "encode" =>
           /\ DOMAIN result.value.obj \subseteq DOMAIN SelectedDecl.fields
           /\ DOMAIN result.value.obj \subseteq DOMAIN arg.obj

\* The call in hand decodes a create-request whose input is a list.
ListInput ==
    /\ op = "ResponsesCreate"
    /\ "input" \in DOMAIN arg.obj
    /\ IsList(arg.obj.input)

\* The item descriptors of the input in hand.
Items == arg.obj.input.list

\* The positions of the input in hand whose item descriptor is invalid.
InvalidAt == {i \in 1..Len(Items) : ~Validate("ResponseInputItemParam", Items[i]).ok}

\* C24: the input of a create-request given a list of n valid item
\* descriptors is a list of n items, the i-th of which is what the i-th
\* descriptor alone is decoded as.
C24_InputOrderPreserved ==
    ListInput /\ InvalidAt = {} =>
        /\ result.ok
        /\ IsList(result.value.obj.input)
        /\ Len(result.value.obj.input.list) = Len(Items)
        /\ \A i \in 1..Len(Items) :
               result.value.obj.input.list[i] =
                   Validate("ResponseInputItemParam", Items[i]).value

\* A list of three different valid descriptors is decoded, the second
\* losing its undeclared key.
C24_Witness ==
    /\ ListInput
    /\ result.ok
    /\ Len(Items) = 3
    /\ Items[1] # Items[2] /\ Items[2] # Items[3] /\ Items[1] # Items[3]
    /\ "extra" \in DOMAIN Items[2].obj
    /\ "extra" \notin DOMAIN result.value.obj.input.list[2].obj

\* The errors reported at elements of the input list in hand.
ItemErrors == {e \in result.errors : e.loc = "input" /\ "index" \in DOMAIN e}

\* The first position of the input in hand whose descriptor is invalid.
FirstInvalid == CHOOSE i \in InvalidAt : \A j \in InvalidAt : i <= j

\* C25: a create-request whose input list has an invalid descriptor is
\* rejected, and the errors reported at the list are those of the first
\* invalid descriptor, under its 0-based index: no descriptor after it
\* adds an error.
C25_FailsFastAtFirstInvalid ==
    ListInput /\ InvalidAt # {} =>
        /\ ~result.ok
        /\ IsNull(result.value)
        /\ ItemErrors # {}
        /\ \A e \in ItemErrors :
               /\ e.index = FirstInvalid - 1
               /\ e.error \in Validate("ResponseInputItemParam", Items[FirstInvalid]).errors

\* The per-item statuses that are terminal.
TerminalItemStatus == {JStr("completed"), JStr("incomplete")}

\* C26: a Response is constructed with status completed only if every
\* item of its output has the status completed or incomplete: none is in
\* progress, searching or failed, and none is without a status.
C26_CompletedHasTerminalItems ==
    Constructed /\ Attr("status") = JStr("completed") =>
        \A i \in 1..Len(Attr("output").list) :
            Attr("output").list[i].obj.status \in TerminalItemStatus

\* The response-side unions dispatched on `type`.
ResponseSideUnions ==
    {"ResponseOutputItem", "Content", "Annotation", "Action", "Tool",
     "ResponseFormatTextConfig"}

\* The call in hand decodes, at a response-side union, a record whose
\* `type` is a string.
ResponseSideDecode ==
    /\ op = "decode"
    /\ site \in ResponseSideUnions
    /\ IsObj(arg)
    /\ "type" \in DOMAIN arg.obj
    /\ IsStr(arg.obj.type)

\* C27: in each response-side union the `type` literals of two different
\* members are disjoint; the `type` of a record decoded there is the
\* literal of at most one member, and a record that is accepted is decoded
\* as that member.
C27_TypeLiteralsDisjoint ==
    /\ \A u \in ResponseSideUnions : \A i, j \in 1..Len(Members(u)) :
           i # j => Members(u)[i].fields.type.lits \cap Members(u)[j].fields.type.lits = {}
    /\ ResponseSideDecode =>
           LET C == Carriers(site, arg.obj.type.str)
           IN  /\ Cardinality(C) <= 1
               /\ result.ok => {Members(site)[i].name : i \in C} = {result.member}

\* A double click, whose literal no other action carries, is decoded as a
\* double click.
C27_Witness ==
    /\ ResponseSideDecode
    /\ site = "Action"
    /\ arg.obj.type = JStr("double_click")
    /\ result.ok
    /\ result.member = "ActionDoubleClick"

====
